---- MODULE Spec2Model ----
(***************************************************************************)
(* sse-starlette: the per-connection stream driver (EventSourceResponse,   *)
(* sse_starlette/sse.py), the process shutdown flag (AppStatus) and the    *)
(* per-domain shutdown broadcast coordinator.                              *)
(*                                                                         *)
(* One connection is modelled.  Its driver runs four tasks in an           *)
(* asyncio.TaskGroup: "stream" (stream_response), "ping" (_ping), "exit"   *)
(* (listen_for_exit_signal) and "disc" (listen_for_disconnect).  A task    *)
(* position is the await at which the coroutine is suspended.              *)
(***************************************************************************)
EXTENDS Integers, Sequences, FiniteSets

\* ---- bounds ----
MaxItems == 2        \* items the event source may produce
MaxPings == 1        \* ping interval expirations that are explored
NumListeners == 2    \* shutdown listeners of the coordinator
NumDomains == 2      \* concurrency domains of the coordinator
MaxArg == 2          \* largest number passed as ping or grace period
MaxLen == 3          \* characters in the text fields of one event, in total
MaxText == 1         \* the same, for the values the driver normalizes
MaxCallbacks == 2    \* shutdown callbacks that are registered
MaxCleanups == 1     \* calls of AppStatus.cleanup

VARIABLES
    pc,             \* task -> position
    cancelReq,      \* task -> Task.cancel() was called and is not yet delivered
    driver,         \* state of EventSourceResponse.__call__
    extCancel,      \* the caller cancelled the driver call
    aborting,       \* TaskGroup._aborting
    propagate,      \* TaskGroup.__aexit__ re-raises the caller's CancelledError
    holder,         \* owner of self._send_lock
    active,         \* self.active
    src,            \* body_iterator: "fresh", "suspended" (at a yield),
                    \* "closed" (returned or closed), "raised" (its own error)
    produced,       \* items pulled from body_iterator
    log,            \* transport calls in the order send() was called
    inflight,       \* kinds of send() calls that have not completed
    send_timeout,   \* self.send_timeout is configured
    has_aclose,     \* hasattr(self.body_iterator, "aclose")
    timedOut,       \* a data write hit send_timeout
    errors,         \* TaskGroup._errors
    nPings,         \* ping interval expirations so far
    should_exit,    \* AppStatus.should_exit
    exit_event,     \* AppStatus.should_exit_event: "none", "unset", "set"
    hx,             \* position of AppStatus.handle_exit
    registry,       \* domain -> registered wait-handles (by listener)
    watcher_started,\* domain -> "watcher running" flag
    watchers,       \* domain -> live watcher tasks
    signalled,      \* listener -> its wait-handle is set
    lpc,            \* listener -> "waiting" (on its handle) or "idle"
    phase,          \* domain -> "fresh", "stopped" (broadcast, nothing
                    \* registered since) or "restarted"
    host_exit,      \* the host server's own exit flag
    fallback_enabled, \* the host-introspection fallback toggle
    hook,           \* the shutdown hook: "none" (not configured), "clear", "set"
    grace_period,   \* the grace period: 0, or 1 for any positive duration
    coop,           \* the producer watches the hook (examples/07) or ignores it
    gpc,            \* position of the shutdown listener's grace wrapper
    call,           \* arguments of the function under evaluation
    ret,            \* its result
    initialized,    \* AppStatus._initialized
    original_handlers,  \* AppStatus._original_handlers: signal -> the handler
                    \* saved at registration, "unsaved" without an entry
    shutdown_callbacks, \* AppStatus._shutdown_callbacks
    os_handlers,    \* signal -> the handler installed in the process
    registrations,  \* calls of _register_signal_handlers since the last cleanup
    nCleanups       \* calls of AppStatus.cleanup so far

tgVars == <<driver, extCancel, aborting, propagate>>
graceVars == <<hook, grace_period, coop, gpc>>
fnVars == <<call, ret>>
stVars == <<initialized, original_handlers, shutdown_callbacks, os_handlers,
            registrations, nCleanups>>
\* variables that no task of sse.py assigns
cfgVars == <<send_timeout, has_aclose, graceVars, fnVars, stVars>>
drvVars == <<pc, cancelReq, tgVars, holder, active, src, produced,
             log, inflight, cfgVars, timedOut, errors, nPings>>
appVars == <<should_exit, exit_event, hx>>
coVars == <<registry, watcher_started, watchers, signalled,
            lpc, phase, host_exit, fallback_enabled>>
vars == <<drvVars, appVars, coVars>>

Tasks == {"stream", "ping", "exit", "disc"}
Listeners == 1..NumListeners
Domains == 1..NumDomains

FinishedPc == {"done", "cancelled", "failed"}
Finished(t) == pc[t] \in FinishedPc

Msg(k, n) == [kind |-> k, n |-> n]

\* a task runs its next statement only while no cancellation is pending
Runnable(t) == driver = "running" /\ ~cancelReq[t] /\ ~Finished(t)

\* TaskGroup._abort(): cancel every task of the group that is not done
\* (p is the position map after the step that triggers the abort)
Abort(p) == [t \in Tasks |-> cancelReq[t] \/ p[t] \notin FinishedPc]

\* asyncio.Lock.acquire() returns without waiting iff the lock is free
LockFree_Always == TRUE
LockFree == holder = "none"

\* `if self.active:` under the send lock in _ping
PingMaySend_NoCheck == TRUE
PingMaySend == active

----
\* ---- stream_response ----

\* `async with self._send_lock: self.active = False; await send(more_body=False)`
EnterTerminal_FlagBeforeLock(p) ==
    /\ active' = FALSE
    /\ IF LockFree
       THEN /\ holder' = "stream"
            /\ log' = Append(log, Msg("term", 0))
            /\ inflight' = inflight \cup {"term"}
            /\ pc' = [p EXCEPT !["stream"] = "sendTerm"]
       ELSE /\ pc' = [p EXCEPT !["stream"] = "lockT"]
            /\ UNCHANGED <<holder, log, inflight>>
EnterTerminal(p) ==
    IF LockFree
    THEN /\ holder' = "stream"
         /\ active' = FALSE
         /\ log' = Append(log, Msg("term", 0))
         /\ inflight' = inflight \cup {"term"}
         /\ pc' = [p EXCEPT !["stream"] = "sendTerm"]
    ELSE /\ pc' = [p EXCEPT !["stream"] = "lockT"]
         /\ UNCHANGED <<holder, active, log, inflight>>

\* first statement: await send(http.response.start)
stream_Begin ==
    /\ Runnable("stream") /\ pc["stream"] = "start"
    /\ pc' = [pc EXCEPT !["stream"] = "sendStart"]
    /\ log' = Append(log, Msg("start", 0))
    /\ inflight' = inflight \cup {"start"}
    /\ UNCHANGED <<cancelReq, tgVars, holder, active, src, produced,
                   cfgVars, timedOut, errors, nPings>>
    /\ UNCHANGED <<appVars, coVars>>

\* the start message is written; `async for` calls __anext__
stream_StartSent ==
    /\ Runnable("stream") /\ pc["stream"] = "sendStart"
    /\ pc' = [pc EXCEPT !["stream"] = "pull"]
    /\ inflight' = inflight \ {"start"}
    /\ UNCHANGED <<cancelReq, tgVars, holder, active, src, produced,
                   log, cfgVars, timedOut, errors, nPings>>
    /\ UNCHANGED <<appVars, coVars>>

\* __anext__ yields an item: encode it and call send under asyncio.timeout
stream_PullItem_Locked ==
    /\ Runnable("stream") /\ pc["stream"] = "pull"
    /\ src # "closed" /\ produced < MaxItems
    /\ LockFree
    /\ holder' = "stream"
    /\ produced' = produced + 1
    /\ src' = "suspended"
    /\ log' = Append(log, Msg("data", produced + 1))
    /\ inflight' = inflight \cup {"data"}
    /\ pc' = [pc EXCEPT !["stream"] = "sendData"]
    /\ UNCHANGED <<cancelReq, tgVars, active,
                   cfgVars, timedOut, errors, nPings>>
    /\ UNCHANGED <<appVars, coVars>>
stream_PullItem ==
    /\ Runnable("stream") /\ pc["stream"] = "pull"
    /\ src # "closed" /\ produced < MaxItems
    /\ produced' = produced + 1
    /\ src' = "suspended"
    /\ log' = Append(log, Msg("data", produced + 1))
    /\ inflight' = inflight \cup {"data"}
    /\ pc' = [pc EXCEPT !["stream"] = "sendData"]
    /\ UNCHANGED <<cancelReq, tgVars, holder, active,
                   cfgVars, timedOut, errors, nPings>>
    /\ UNCHANGED <<appVars, coVars>>

\* __anext__ raises StopAsyncIteration: leave the loop, terminal write
stream_PullExhausted ==
    /\ Runnable("stream") /\ pc["stream"] = "pull"
    /\ src' = "closed"
    /\ EnterTerminal(pc)
    /\ UNCHANGED <<cancelReq, tgVars, produced,
                   cfgVars, timedOut, errors, nPings>>
    /\ UNCHANGED <<appVars, coVars>>

\* __anext__ raises an exception of the producer: the task fails and
\* TaskGroup._on_task_done aborts the group
stream_PullRaise ==
    /\ Runnable("stream") /\ pc["stream"] = "pull"
    /\ src \in {"fresh", "suspended"}
    /\ src' = "raised"
    /\ pc' = [pc EXCEPT !["stream"] = "failed"]
    /\ errors' = errors \cup {"ProducerError"}
    /\ cancelReq' = IF aborting THEN cancelReq ELSE Abort(pc')
    /\ aborting' = TRUE
    /\ UNCHANGED <<driver, extCancel, propagate, holder, active, produced, log,
                   inflight, cfgVars, timedOut, nPings>>
    /\ UNCHANGED <<appVars, coVars>>

\* the data write completes: back to __anext__
stream_DataSent ==
    /\ Runnable("stream") /\ pc["stream"] = "sendData"
    /\ pc' = [pc EXCEPT !["stream"] = "pull"]
    /\ inflight' = inflight \ {"data"}
    /\ UNCHANGED <<cancelReq, tgVars, holder, active, src, produced,
                   log, cfgVars, timedOut, errors, nPings>>
    /\ UNCHANGED <<appVars, coVars>>

\* asyncio.timeout expires during the data write: the send is cancelled,
\* TimeoutError is caught, the iterator is closed if it has aclose, and the
\* `async for` loop goes on with __anext__
stream_Timeout ==
    /\ Runnable("stream") /\ pc["stream"] = "sendData"
    /\ send_timeout
    /\ timedOut' = TRUE
    /\ inflight' = inflight \ {"data"}
    /\ src' = IF has_aclose THEN "closed" ELSE src
    /\ pc' = [pc EXCEPT !["stream"] = "pull"]
    /\ UNCHANGED <<cancelReq, tgVars, holder, active, produced,
                   log, cfgVars, errors, nPings>>
    /\ UNCHANGED <<appVars, coVars>>

\* the send lock became free while waiting for it
stream_AcquireTerm ==
    /\ Runnable("stream") /\ pc["stream"] = "lockT"
    /\ LockFree
    /\ EnterTerminal(pc)
    /\ UNCHANGED <<cancelReq, tgVars, src, produced,
                   cfgVars, timedOut, errors, nPings>>
    /\ UNCHANGED <<appVars, coVars>>

\* the terminal write completes: release the lock, return
stream_TermSent ==
    /\ Runnable("stream") /\ pc["stream"] = "sendTerm"
    /\ pc' = [pc EXCEPT !["stream"] = "done"]
    /\ inflight' = inflight \ {"term"}
    /\ holder' = "none"
    /\ UNCHANGED <<cancelReq, tgVars, active, src, produced,
                   log, cfgVars, timedOut, errors, nPings>>
    /\ UNCHANGED <<appVars, coVars>>

\* CancelledError is raised at the await the task is suspended in.  Inside
\* __anext__ it unwinds the producer (its cleanup runs); inside send it
\* passes asyncio.timeout and the `except asyncio.TimeoutError` untouched, so
\* the iterator stays suspended at its yield
stream_Cancelled ==
    /\ driver = "running" /\ cancelReq["stream"] /\ ~Finished("stream")
    /\ pc' = [pc EXCEPT !["stream"] = "cancelled"]
    /\ cancelReq' = [cancelReq EXCEPT !["stream"] = FALSE]
    /\ src' = IF pc["stream"] = "pull" /\ has_aclose THEN "closed" ELSE src
    /\ inflight' = IF pc["stream"] = "sendStart" THEN inflight \ {"start"}
                   ELSE IF pc["stream"] = "sendData" THEN inflight \ {"data"}
                   ELSE IF pc["stream"] = "sendTerm" THEN inflight \ {"term"}
                   ELSE inflight
    /\ holder' = IF pc["stream"] = "sendTerm" THEN "none" ELSE holder
    /\ UNCHANGED <<tgVars, active, produced,
                   log, cfgVars, timedOut, errors, nPings>>
    /\ UNCHANGED <<appVars, coVars>>

----
\* ---- _ping ----

\* `async with self._send_lock: if self.active: await send(ping)`; when the
\* write is skipped the lock is released and `while self.active` is tested
TakeLockPing ==
    IF LockFree
    THEN IF PingMaySend
         THEN /\ holder' = "ping"
              /\ log' = Append(log, Msg("ping", 0))
              /\ inflight' = inflight \cup {"ping"}
              /\ pc' = [pc EXCEPT !["ping"] = "send"]
         ELSE /\ pc' = [pc EXCEPT !["ping"] = IF active THEN "sleep" ELSE "done"]
              /\ UNCHANGED <<holder, log, inflight>>
    ELSE /\ pc' = [pc EXCEPT !["ping"] = "lock"]
         /\ UNCHANGED <<holder, log, inflight>>

\* first test of `while self.active`, then asyncio.sleep
ping_Begin ==
    /\ Runnable("ping") /\ pc["ping"] = "start"
    /\ pc' = [pc EXCEPT !["ping"] = IF active THEN "sleep" ELSE "done"]
    /\ UNCHANGED <<cancelReq, tgVars, holder, active, src, produced, log,
                   inflight, cfgVars, timedOut, errors, nPings>>
    /\ UNCHANGED <<appVars, coVars>>

\* the ping interval has elapsed: build the ping, take the send lock.  The
\* tasks of the group take their first step in the order of their creation,
\* so stream_response has called send (or was cancelled) before any sleep ends
ping_Wake ==
    /\ Runnable("ping") /\ pc["ping"] = "sleep"
    /\ pc["stream"] # "start"
    /\ nPings < MaxPings
    /\ nPings' = nPings + 1
    /\ TakeLockPing
    /\ UNCHANGED <<cancelReq, tgVars, active, src, produced,
                   cfgVars, timedOut, errors>>
    /\ UNCHANGED <<appVars, coVars>>

\* the send lock became free while waiting for it
ping_Acquire ==
    /\ Runnable("ping") /\ pc["ping"] = "lock"
    /\ LockFree
    /\ TakeLockPing
    /\ UNCHANGED <<cancelReq, tgVars, active, src, produced,
                   cfgVars, timedOut, errors, nPings>>
    /\ UNCHANGED <<appVars, coVars>>

\* the ping write completes: release the lock, test `while self.active`
ping_Sent ==
    /\ Runnable("ping") /\ pc["ping"] = "send"
    /\ holder' = "none"
    /\ inflight' = inflight \ {"ping"}
    /\ pc' = [pc EXCEPT !["ping"] = IF active THEN "sleep" ELSE "done"]
    /\ UNCHANGED <<cancelReq, tgVars, active, src, produced, log,
                   cfgVars, timedOut, errors, nPings>>
    /\ UNCHANGED <<appVars, coVars>>

ping_Cancelled ==
    /\ driver = "running" /\ cancelReq["ping"] /\ ~Finished("ping")
    /\ pc' = [pc EXCEPT !["ping"] = "cancelled"]
    /\ cancelReq' = [cancelReq EXCEPT !["ping"] = FALSE]
    /\ holder' = IF pc["ping"] = "send" THEN "none" ELSE holder
    /\ inflight' = IF pc["ping"] = "send" THEN inflight \ {"ping"} ELSE inflight
    /\ UNCHANGED <<tgVars, active, src, produced, log,
                   cfgVars, timedOut, errors, nPings>>
    /\ UNCHANGED <<appVars, coVars>>

----
\* ---- AppStatus.handle_exit ----
\* It runs from a signal handler or a foreign thread, so a listener can be
\* between two of its statements when either statement of handle_exit runs.

\* `cls.should_exit = True`
handle_exit_SetFlag_Toggle ==
    /\ hx = "idle"
    /\ should_exit' = ~should_exit
    /\ hx' = "notify"
    /\ UNCHANGED <<exit_event, drvVars, coVars>>
handle_exit_SetFlag ==
    /\ hx = "idle"
    /\ should_exit' = TRUE
    /\ hx' = "notify"
    /\ UNCHANGED <<exit_event, drvVars, coVars>>

\* `if cls.should_exit_event is not None: cls.should_exit_event.set()`
handle_exit_Notify ==
    /\ hx = "notify"
    /\ exit_event' = IF exit_event = "none" THEN "none" ELSE "set"
    /\ hx' = "idle"
    /\ UNCHANGED <<should_exit, drvVars, coVars>>

----
\* ---- listen_for_exit_signal ----
\* The coroutine has no await before event.wait(), so cancellation reaches it
\* only before its first statement or inside wait().

\* `if AppStatus.should_exit: return` after the event is set up
RecheckExit_Skip == FALSE
RecheckExit == should_exit

\* `if AppStatus.should_exit: return`
exit_CheckFirst ==
    /\ Runnable("exit") /\ pc["exit"] = "start"
    /\ pc' = [pc EXCEPT !["exit"] = IF should_exit THEN "done" ELSE "setup"]
    /\ UNCHANGED <<cancelReq, tgVars, holder, active, src, produced, log,
                   inflight, cfgVars, timedOut, errors, nPings>>
    /\ UNCHANGED <<appVars, coVars>>

\* `if AppStatus.should_exit_event is None: ... = asyncio.Event()`
exit_SetupEvent ==
    /\ driver = "running" /\ pc["exit"] = "setup"
    /\ exit_event' = IF exit_event = "none" THEN "unset" ELSE exit_event
    /\ pc' = [pc EXCEPT !["exit"] = "recheck"]
    /\ UNCHANGED <<should_exit, hx>>
    /\ UNCHANGED <<cancelReq, tgVars, holder, active, src, produced, log,
                   inflight, cfgVars, timedOut, errors, nPings>>
    /\ UNCHANGED coVars

\* second check, then `await AppStatus.should_exit_event.wait()`
exit_Recheck ==
    /\ driver = "running" /\ pc["exit"] = "recheck"
    /\ pc' = [pc EXCEPT !["exit"] = IF RecheckExit THEN "done" ELSE "wait"]
    /\ UNCHANGED <<cancelReq, tgVars, holder, active, src, produced, log,
                   inflight, cfgVars, timedOut, errors, nPings>>
    /\ UNCHANGED <<appVars, coVars>>

\* wait() returns once the event is set
exit_Wake ==
    /\ Runnable("exit") /\ pc["exit"] = "wait"
    /\ exit_event = "set"
    /\ pc' = [pc EXCEPT !["exit"] = "done"]
    /\ UNCHANGED <<cancelReq, tgVars, holder, active, src, produced, log,
                   inflight, cfgVars, timedOut, errors, nPings>>
    /\ UNCHANGED <<appVars, coVars>>

exit_Cancelled ==
    /\ driver = "running" /\ cancelReq["exit"]
    /\ pc["exit"] \in {"start", "wait"}
    /\ pc' = [pc EXCEPT !["exit"] = "cancelled"]
    /\ cancelReq' = [cancelReq EXCEPT !["exit"] = FALSE]
    /\ UNCHANGED <<tgVars, holder, active, src, produced, log,
                   inflight, cfgVars, timedOut, errors, nPings>>
    /\ UNCHANGED <<appVars, coVars>>

----
\* ---- listen_for_disconnect and the TaskGroup of __call__ ----

\* receive() returns http.disconnect: the task ends and its done callback
\* calls tg._abort()
disc_Notice ==
    /\ Runnable("disc") /\ pc["disc"] = "recv"
    /\ pc' = [pc EXCEPT !["disc"] = "done"]
    /\ cancelReq' = Abort(pc')
    /\ aborting' = TRUE
    /\ UNCHANGED <<driver, extCancel, propagate, holder, active, src, produced,
                   log, inflight, cfgVars, timedOut, errors, nPings>>
    /\ UNCHANGED <<appVars, coVars>>

\* the done callback also runs when the task ends cancelled
disc_Cancelled ==
    /\ driver = "running" /\ cancelReq["disc"] /\ ~Finished("disc")
    /\ pc' = [pc EXCEPT !["disc"] = "cancelled"]
    /\ cancelReq' = [Abort(pc') EXCEPT !["disc"] = FALSE]
    /\ aborting' = TRUE
    /\ UNCHANGED <<driver, extCancel, propagate, holder, active, src, produced,
                   log, inflight, cfgVars, timedOut, errors, nPings>>
    /\ UNCHANGED <<appVars, coVars>>

\* the caller cancels the driver call while TaskGroup.__aexit__ waits for
\* its tasks; a group that is already aborting swallows the cancellation
ExternalCancel ==
    /\ driver = "running" /\ ~extCancel
    /\ extCancel' = TRUE
    /\ propagate' = ~aborting
    /\ aborting' = TRUE
    /\ cancelReq' = IF aborting THEN cancelReq ELSE Abort(pc)
    /\ UNCHANGED <<pc, driver, holder, active, src, produced, log,
                   inflight, cfgVars, timedOut, errors, nPings>>
    /\ UNCHANGED <<appVars, coVars>>

\* how `async with asyncio.TaskGroup()` ends: the errors of its tasks are
\* raised as an exception group, else the caller's cancellation, else it
\* returns
ExitOutcome_ErrorsSwallowed == IF propagate THEN "cancelled" ELSE "returned"
ExitOutcome ==
    IF errors # {} THEN "raised"
    ELSE IF propagate THEN "cancelled" ELSE "returned"

\* TaskGroup.__aexit__ ends when every task is done
DriverExit ==
    /\ driver = "running"
    /\ \A t \in Tasks : Finished(t)
    /\ driver' = ExitOutcome
    /\ UNCHANGED <<pc, cancelReq, extCancel, aborting, propagate, holder,
                   active, src, produced, log, inflight, cfgVars, timedOut,
                   errors, nPings>>
    /\ UNCHANGED <<appVars, coVars>>

----
\* ---- shutdown broadcast coordinator ----
\* One registry and at most one polling watcher per concurrency domain.
\* Within a domain tasks are scheduled cooperatively, so a registration (no
\* suspension point) is one step.

\* the watcher's detection condition: the global flag, or the host server's
\* own exit flag when the fallback is enabled
ShutdownDetected_FlagOnly == should_exit
ShutdownDetected_ToggleIgnored == should_exit \/ host_exit
ShutdownDetected == should_exit \/ (fallback_enabled /\ host_exit)

\* "ensures a watcher is running in that domain (starting one if not)"
NeedWatcher_Always(d) == TRUE
NeedWatcher(d) == ~watcher_started[d]

\* the handles a broadcast signals: a snapshot of the domain's registry
BroadcastTargets_One(d) ==
    IF registry[d] = {} THEN {} ELSE {CHOOSE l \in registry[d] : TRUE}
BroadcastTargets(d) == registry[d]

\* the "running" flag the watcher leaves behind when it exits
FlagAfterExit_Kept == TRUE
FlagAfterExit == FALSE

\* "callers must remove their handle when they stop waiting, in a block
\* that executes on every exit path (normal, cancelled, error)"
Deregister_Skipped(l) == registry
Deregister(l) == [d \in Domains |-> registry[d] \ {l}]

\* a shutdown listener starts: with the flag already set it returns at once
\* without registering; otherwise it adds its handle to the registry of its
\* domain, makes sure the domain has a watcher, and waits
Register(l, d) ==
    /\ lpc[l] # "waiting"
    /\ IF should_exit
       THEN UNCHANGED <<lpc, registry, signalled, watcher_started,
                        watchers, phase>>
       ELSE /\ lpc' = [lpc EXCEPT ![l] = "waiting"]
            /\ registry' = [registry EXCEPT ![d] = @ \cup {l}]
            /\ signalled' = [signalled EXCEPT ![l] = FALSE]
            /\ phase' = [phase EXCEPT ![d] =
                            IF @ = "fresh" THEN "fresh" ELSE "restarted"]
            /\ IF NeedWatcher(d)
               THEN /\ watcher_started' = [watcher_started EXCEPT ![d] = TRUE]
                    /\ watchers' = [watchers EXCEPT ![d] = @ + 1]
               ELSE UNCHANGED <<watcher_started, watchers>>
    /\ UNCHANGED <<host_exit, fallback_enabled>>
    /\ UNCHANGED <<drvVars, appVars>>

\* a poll of the watcher that detects shutdown: broadcast, exit, reset the
\* running flag (a poll that detects nothing changes nothing)
WatcherPoll(d) ==
    /\ watchers[d] > 0
    /\ ShutdownDetected
    /\ should_exit' = TRUE
    /\ signalled' = [l \in Listeners |->
                        signalled[l] \/ l \in BroadcastTargets(d)]
    /\ phase' = [phase EXCEPT ![d] = "stopped"]
    /\ watchers' = [watchers EXCEPT ![d] = @ - 1]
    /\ watcher_started' = [watcher_started EXCEPT ![d] = FlagAfterExit]
    /\ UNCHANGED <<registry, lpc, host_exit,
                   fallback_enabled, exit_event, hx>>
    /\ UNCHANGED drvVars

\* a signalled listener wakes up and removes its handle
Wake(l) ==
    /\ lpc[l] = "waiting"
    /\ signalled[l]
    /\ lpc' = [lpc EXCEPT ![l] = "idle"]
    /\ registry' = Deregister(l)
    /\ signalled' = [signalled EXCEPT ![l] = FALSE]
    /\ UNCHANGED <<watcher_started, watchers,
                   phase, host_exit, fallback_enabled>>
    /\ UNCHANGED <<drvVars, appVars>>

\* a waiting listener is cancelled by a sibling and removes its handle
CancelListener(l) ==
    /\ lpc[l] = "waiting"
    /\ lpc' = [lpc EXCEPT ![l] = "idle"]
    /\ registry' = Deregister(l)
    /\ signalled' = [signalled EXCEPT ![l] = FALSE]
    /\ UNCHANGED <<watcher_started, watchers,
                   phase, host_exit, fallback_enabled>>
    /\ UNCHANGED <<drvVars, appVars>>

\* a waiting listener fails with an error and removes its handle
FailListener(l) ==
    /\ lpc[l] = "waiting"
    /\ lpc' = [lpc EXCEPT ![l] = "idle"]
    /\ registry' = Deregister(l)
    /\ signalled' = [signalled EXCEPT ![l] = FALSE]
    /\ UNCHANGED <<watcher_started, watchers,
                   phase, host_exit, fallback_enabled>>
    /\ UNCHANGED <<drvVars, appVars>>

\* the host server sets its own exit flag
HostExit ==
    /\ ~host_exit
    /\ host_exit' = TRUE
    /\ UNCHANGED <<registry, watcher_started, watchers,
                   signalled, lpc, phase, fallback_enabled>>
    /\ UNCHANGED <<drvVars, appVars>>

\* AppStatus.reset(), the test utility, used between shutdown rounds once
\* the watchers have exited
reset ==
    /\ should_exit
    /\ hx = "idle"
    /\ \A d \in Domains : watchers[d] = 0
    /\ should_exit' = FALSE
    /\ exit_event' = "none"
    /\ host_exit' = FALSE
    /\ UNCHANGED <<hx, registry, watcher_started, watchers,
                   signalled, lpc, phase, fallback_enabled>>
    /\ UNCHANGED drvVars

NextCoord ==
    \/ \E l \in Listeners, d \in Domains : Register(l, d)
    \/ \E d \in Domains : WatcherPoll(d)
    \/ \E l \in Listeners : Wake(l)
    \/ \E l \in Listeners : CancelListener(l)
    \/ \E l \in Listeners : FailListener(l)
    \/ handle_exit_SetFlag \/ handle_exit_Notify
    \/ HostExit \/ reset

----
\* ---- cooperative shutdown: the hook and the grace period ----
\* On detection the shutdown listener marks the hook, waits up to the grace
\* period for the write loop to finish, and then everything is cancelled.
\* Durations are not measured: the grace period either is zero or expires at
\* some later step.

Farewell == Msg("data", 0)
FarewellYielded == \E i \in DOMAIN log : log[i] = Farewell

\* "marks a shutdown-observable handle that the event source can poll/await"
HookOnShutdown_NotSet == hook
HookOnShutdown == IF hook = "none" THEN "none" ELSE "set"

\* "then waits up to grace_period seconds for the write loop to finish"
GraceWait_Never == FALSE
GraceWait == hook # "none" /\ grace_period > 0

\* "force-cancels everything"
ForceCancel_LoopOnly(p) ==
    [t \in Tasks |-> cancelReq[t] \/ (t = "stream" /\ p[t] \notin FinishedPc)]
ForceCancel(p) == Abort(p)

\* the producer of examples/07_cooperative_shutdown.py: it yields ticks
\* while the hook is clear, then one farewell event, then returns; a
\* producer that ignores the hook yields ticks for ever
ProducerTicks == ~(coop /\ hook = "set")
ProducerSaysFarewell == coop /\ hook = "set" /\ ~FarewellYielded
ProducerReturns == coop /\ FarewellYielded

\* __anext__ yields the farewell event: encode it and call send
stream_PullFarewell ==
    /\ Runnable("stream") /\ pc["stream"] = "pull"
    /\ src # "closed"
    /\ produced' = produced + 1
    /\ src' = "suspended"
    /\ log' = Append(log, Farewell)
    /\ inflight' = inflight \cup {"data"}
    /\ pc' = [pc EXCEPT !["stream"] = "sendData"]
    /\ UNCHANGED <<cancelReq, tgVars, holder, active,
                   cfgVars, timedOut, errors, nPings>>
    /\ UNCHANGED <<appVars, coVars>>

\* what a step of the grace wrapper leaves alone
GraceFrame ==
    /\ UNCHANGED <<pc, driver, extCancel, propagate, holder, active, src,
                   produced, log, inflight, timedOut, errors, nPings>>
    /\ UNCHANGED <<send_timeout, has_aclose, grace_period, coop, fnVars, stVars>>
    /\ UNCHANGED <<appVars, coVars>>

\* shutdown was detected: mark the hook, then wait or not
grace_SetHook ==
    /\ driver = "running" /\ gpc = "listen" /\ pc["exit"] = "done"
    /\ hook' = HookOnShutdown
    /\ gpc' = IF GraceWait THEN "grace" ELSE "nograce"
    /\ UNCHANGED <<cancelReq, aborting>>
    /\ GraceFrame

\* no hook or a grace period of zero: cancellation follows at once
grace_Immediate ==
    /\ driver = "running" /\ gpc = "nograce"
    /\ gpc' = "returned"
    /\ cancelReq' = ForceCancel(pc)
    /\ aborting' = TRUE
    /\ UNCHANGED hook
    /\ GraceFrame

\* the write loop finished within the grace period (active is false): the
\* listener returns and what is still running is cancelled
grace_LoopFinished ==
    /\ driver = "running" /\ gpc = "grace"
    /\ ~active
    /\ gpc' = "returned"
    /\ cancelReq' = ForceCancel(pc)
    /\ aborting' = TRUE
    /\ UNCHANGED hook
    /\ GraceFrame

\* the grace period has elapsed with the write loop still running
grace_Expire ==
    /\ driver = "running" /\ gpc = "grace"
    /\ active
    /\ gpc' = "expired"
    /\ cancelReq' = ForceCancel(pc)
    /\ aborting' = TRUE
    /\ UNCHANGED hook
    /\ GraceFrame

----
\* ---- EventSourceResponse.__init__ ----
\* The arguments are a record: ping and grace are [given, v] (given = FALSE
\* when the keyword is left out), sep is "None" or the string passed.

DEFAULT_PING_INTERVAL == 15
ValidSeps == {"\r\n", "\r", "\n"}
SepArgs == {"None", "\r\n", "\r", "\n", "|", "\n\n"}

NumArgs ==
    {[given |-> FALSE, v |-> 0]} \cup
    {[given |-> TRUE, v |-> n] : n \in -1..MaxArg}

CtorArgs == [fn : {"__init__"}, ping : NumArgs, sep : SepArgs, grace : NumArgs]

Failure(e) == [outcome |-> e, ping_interval |-> 0, sep |-> "None"]

\* `self.ping_interval = ping or self.DEFAULT_PING_INTERVAL`: None and 0 are
\* both falsy
PingOrDefault(a) ==
    IF a.ping.given /\ a.ping.v # 0 THEN a.ping.v ELSE DEFAULT_PING_INTERVAL

\* the signature has no grace period parameter, so passing one is a
\* TypeError of the call; then the separator check, then the ping_interval
\* setter (`if value <= 0: raise ValueError`)
Construct(a) ==
    IF a.grace.given THEN Failure("TypeError")
    ELSE IF a.sep # "None" /\ a.sep \notin ValidSeps THEN Failure("ValueError")
    ELSE IF PingOrDefault(a) <= 0 THEN Failure("ValueError")
    ELSE [outcome |-> "ok",
          ping_interval |-> PingOrDefault(a),
          sep |-> IF a.sep = "None" THEN "\r\n" ELSE a.sep]

init_Construct ==
    /\ call \in CtorArgs /\ ret = <<>>
    /\ ret' = Construct(call)
    /\ UNCHANGED <<pc, cancelReq, tgVars, holder, active, src, produced, log,
                   inflight, send_timeout, has_aclose, graceVars, stVars, call,
                   timedOut, errors, nPings>>
    /\ UNCHANGED <<appVars, coVars>>

----
\* ---- ServerSentEvent.encode (event.py) ----
\* A string is a sequence of characters; the tags and the rendered retry
\* number are single tokens of the output.  A field is [set, s] with set =
\* FALSE for None; retry is [set, kind, v].

Alphabet == {"x", "\r", "\n"}
Strs(n) == UNION {[1..k -> Alphabet] : k \in 0..n}
OptStr(n) ==
    {[set |-> FALSE, s |-> <<>>]} \cup {[set |-> TRUE, s |-> x] : x \in Strs(n)}

\* retry values: None, the integer 3, the boolean True (bool is a subclass
\* of int) and a float
RetryArgs ==
    { [set |-> FALSE, kind |-> "int", v |-> 0],
      [set |-> TRUE, kind |-> "int", v |-> 3],
      [set |-> TRUE, kind |-> "bool", v |-> 1],
      [set |-> TRUE, kind |-> "float", v |-> 0] }

\* `isinstance(self.retry, int)`
IsInstanceInt(r) == r.kind \in {"int", "bool"}

CRLF == <<"\r", "\n">>
SepOpts ==
    { [set |-> FALSE, s |-> <<>>],
      [set |-> TRUE, s |-> <<"\r">>],
      [set |-> TRUE, s |-> <<"\n">>] }

TAG_COMMENT == <<": ">>
TAG_ID == <<"id: ">>
TAG_EVENT == <<"event: ">>
TAG_DATA == <<"data: ">>
TAG_RETRY == <<"retry: ">>

\* `self._sep = sep if sep is not None else self.DEFAULT_SEPARATOR`
SepOf(e) == IF e.sep.set THEN e.sep.s ELSE CRLF

\* _LINE_SEP_EXPR = re.compile(r"\r\n|\r|\n"): the two-character alternative
\* comes first
IsCRLF_Never(s) == FALSE
IsCRLF(s) == Len(s) >= 2 /\ s[1] = "\r" /\ s[2] = "\n"

\* _LINE_SEP_EXPR.split(s), with cur the fragment read so far
RECURSIVE SplitFrom(_, _)
SplitFrom(s, cur) ==
    IF s = <<>> THEN <<cur>>
    ELSE IF IsCRLF(s) THEN <<cur>> \o SplitFrom(SubSeq(s, 3, Len(s)), <<>>)
    ELSE IF s[1] \in {"\r", "\n"} THEN <<cur>> \o SplitFrom(Tail(s), <<>>)
    ELSE SplitFrom(Tail(s), Append(cur, s[1]))

split(s) == SplitFrom(s, <<>>)

\* _LINE_SEP_EXPR.sub("", s)
IsBreakChar_LFOnly(c) == c = "\n"
IsBreakChar(c) == c \in {"\r", "\n"}
sub(s) == SelectSeq(s, LAMBDA c : ~IsBreakChar(c))

\* `for chunk in ...split(value): write_fn(f"{tag}{chunk}{self._sep}")`
RECURSIVE WriteChunks(_, _, _)
WriteChunks(tag, chunks, sep) ==
    IF chunks = <<>> THEN <<>>
    ELSE tag \o Head(chunks) \o sep \o WriteChunks(tag, Tail(chunks), sep)

EncodeComment(e) ==
    IF e.comment.set
    THEN WriteChunks(TAG_COMMENT, split(e.comment.s), SepOf(e)) ELSE <<>>

EncodeId(e) ==
    IF e.id.set THEN TAG_ID \o sub(e.id.s) \o SepOf(e) ELSE <<>>

EncodeEvent(e) ==
    IF e.event.set THEN TAG_EVENT \o sub(e.event.s) \o SepOf(e) ELSE <<>>

EncodeData(e) ==
    IF e.data.set
    THEN WriteChunks(TAG_DATA, split(e.data.s), SepOf(e)) ELSE <<>>

\* str(retry), one token of the output: the digit of a one-digit integer,
\* "True" or "False" for a boolean
str(r) ==
    IF r.kind = "bool" THEN (IF r.v = 1 THEN "True" ELSE "False")
    ELSE <<"0", "1", "2", "3", "4", "5", "6", "7", "8", "9">>[r.v + 1]

EncodeRetry(e) ==
    IF e.retry.set THEN TAG_RETRY \o <<str(e.retry)>> \o SepOf(e) ELSE <<>>

\* the last write: `write_fn(self._sep)`
EndOfEvent_Missing(e) == <<>>
EndOfEvent(e) == SepOf(e)

\* _encode_impl into the buffer, in the order of its statements
encode_impl(e) ==
    EncodeComment(e) \o EncodeId(e) \o EncodeEvent(e) \o EncodeData(e)
        \o EncodeRetry(e) \o EndOfEvent(e)

\* encode(): the buffer's content, or the TypeError of a non-integer retry,
\* raised before anything is returned
encode(e) ==
    IF e.retry.set /\ ~IsInstanceInt(e.retry)
    THEN [outcome |-> "TypeError", bytes |-> <<>>]
    ELSE [outcome |-> "ok", bytes |-> encode_impl(e)]

encode_Call ==
    /\ call # <<>> /\ call.fn = "encode" /\ ret = <<>>
    /\ ret' = encode(call)
    /\ UNCHANGED <<pc, cancelReq, tgVars, holder, active, src, produced, log,
                   inflight, send_timeout, has_aclose, graceVars, stVars, call,
                   timedOut, errors, nPings>>
    /\ UNCHANGED <<appVars, coVars>>

----
\* ---- ensure_bytes and the ping message (sse.py) ----
\* What the producer yields is [kind, ev, extra, scalar]: kind "bytes" (the
\* bytes are scalar.s), "event" (a ServerSentEvent, ev), "dict" (keyword
\* arguments ev, extra = a key that is no parameter of ServerSentEvent) or
\* "scalar" (a str or an int).  The response's separator is a string.

ResponseSeps == {CRLF, <<"\r">>, <<"\n">>}

NoField == [set |-> FALSE, s |-> <<>>]
NoRetry == [set |-> FALSE, kind |-> "int", v |-> 0]
NoEvent ==
    [comment |-> NoField, id |-> NoField, event |-> NoField, data |-> NoField,
     retry |-> NoRetry, sep |-> NoField]

ScalarArgs ==
    {[kind |-> "str", s |-> x, v |-> 0] : x \in Strs(MaxText)}
        \cup {[kind |-> "int", s |-> <<>>, v |-> 1]}

\* str(data) of a scalar
ScalarText(x) == IF x.kind = "str" THEN x.s ELSE <<str(x)>>

\* `ServerSentEvent(**data)`: a keyword that is no parameter is a TypeError
UnknownKey_Ignored(d) == FALSE
UnknownKey(d) == d.extra

\* `data["sep"] = sep`
WithSep(ev, sep) == [ev EXCEPT !.sep = [set |-> TRUE, s |-> sep]]

\* `ServerSentEvent(str(data), sep=sep)`
DataEvent(x, sep) ==
    WithSep([NoEvent EXCEPT !.data = [set |-> TRUE, s |-> ScalarText(x)]], sep)

ensure_bytes(d, sep) ==
    IF d.kind = "bytes" THEN [outcome |-> "ok", bytes |-> d.scalar.s]
    ELSE IF d.kind = "event" THEN encode(d.ev)
    ELSE IF d.kind = "dict"
         THEN IF UnknownKey(d)
              THEN [outcome |-> "TypeError", bytes |-> <<>>]
              ELSE encode(WithSep(d.ev, sep))
    ELSE encode(DataEvent(d.scalar, sep))

\* the text of the default ping comment, f"ping {datetime.now()}"
PingText == <<"x">>

\* the ping of _ping: the default comment event, or what the factory
\* returns passed through ensure_bytes
PingMessage(d, sep) ==
    IF d.kind = "nofactory"
    THEN encode(WithSep([NoEvent EXCEPT !.comment =
                            [set |-> TRUE, s |-> PingText]], sep))
    ELSE ensure_bytes(d, sep)

FnFrame ==
    /\ UNCHANGED <<pc, cancelReq, tgVars, holder, active, src, produced, log,
                   inflight, send_timeout, has_aclose, graceVars, stVars, call,
                   timedOut, errors, nPings>>
    /\ UNCHANGED <<appVars, coVars>>

\* `chunk = ensure_bytes(data, self.sep)` in stream_response
ensure_Call ==
    /\ call # <<>> /\ call.fn = "ensure_bytes" /\ ret = <<>>
    /\ ret' = ensure_bytes(call, call.sep)
    /\ FnFrame

\* `ping = ...` in _ping
ping_Message ==
    /\ call # <<>> /\ call.fn = "_ping" /\ ret = <<>>
    /\ ret' = PingMessage(call, call.sep)
    /\ FnFrame

NextEnsure == ensure_Call \/ ping_Message

----
\* ---- the driver's specification ----

InitDriver ==
    /\ pc = [t \in Tasks |-> IF t = "disc" THEN "recv" ELSE "start"]
    /\ cancelReq = [t \in Tasks |-> FALSE]
    /\ driver = "running"
    /\ extCancel = FALSE
    /\ aborting = FALSE
    /\ propagate = FALSE
    /\ holder = "none"
    /\ active = TRUE
    /\ src = "fresh"
    /\ produced = 0
    /\ log = <<>>
    /\ inflight = {}
    /\ send_timeout \in BOOLEAN
    /\ has_aclose = TRUE      \* the event source is an async generator
    /\ timedOut = FALSE
    /\ errors = {}
    /\ nPings = 0

Signals == {"SIGINT", "SIGTERM"}

\* the class attributes of appstatus.py before initialize(); the process has
\* the interpreter's handlers (default_int_handler for SIGINT)
InitSignals ==
    /\ initialized = FALSE
    /\ original_handlers = [sig \in Signals |-> "unsaved"]
    /\ shutdown_callbacks = <<>>
    /\ os_handlers = [sig \in Signals |->
                         IF sig = "SIGINT" THEN "fn" ELSE "SIG_DFL"]
    /\ registrations = 0
    /\ nCleanups = 0

InitApp ==
    /\ should_exit = FALSE
    /\ exit_event = "none"
    /\ hx = "idle"
    /\ InitSignals

InitCoord ==
    /\ registry = [d \in Domains |-> {}]
    /\ watcher_started = [d \in Domains |-> FALSE]
    /\ watchers = [d \in Domains |-> 0]
    /\ signalled = [l \in Listeners |-> FALSE]
    /\ lpc = [l \in Listeners |-> "idle"]
    /\ phase = [d \in Domains |-> "fresh"]
    /\ host_exit = FALSE
    /\ fallback_enabled = TRUE

\* no shutdown hook is configured
InitNoHook ==
    /\ hook = "none"
    /\ grace_period = 0
    /\ coop = FALSE
    /\ gpc = "listen"

\* no function is under evaluation
InitNoCall ==
    /\ call = <<>>
    /\ ret = <<>>

Init == InitDriver /\ InitApp /\ InitCoord /\ InitNoHook /\ InitNoCall

Next ==
    \/ stream_Begin \/ stream_StartSent \/ stream_PullItem
    \/ stream_PullExhausted \/ stream_PullRaise \/ stream_DataSent
    \/ stream_Timeout \/ stream_AcquireTerm \/ stream_TermSent
    \/ stream_Cancelled
    \/ ping_Begin \/ ping_Wake \/ ping_Acquire \/ ping_Sent \/ ping_Cancelled
    \/ exit_CheckFirst \/ exit_SetupEvent \/ exit_Recheck \/ exit_Wake
    \/ exit_Cancelled
    \/ disc_Notice \/ disc_Cancelled
    \/ handle_exit_SetFlag \/ handle_exit_Notify
    \/ ExternalCancel \/ DriverExit

Spec == Init /\ [][Next]_vars

\* a connection with send_timeout whose event source is an async iterator
\* without aclose (a class with only __aiter__ and __anext__)
InitPlainIterator ==
    /\ pc = [t \in Tasks |-> IF t = "disc" THEN "recv" ELSE "start"]
    /\ cancelReq = [t \in Tasks |-> FALSE]
    /\ driver = "running"
    /\ extCancel = FALSE /\ aborting = FALSE /\ propagate = FALSE
    /\ holder = "none"
    /\ active = TRUE
    /\ src = "fresh"
    /\ produced = 0
    /\ log = <<>>
    /\ inflight = {}
    /\ send_timeout = TRUE
    /\ has_aclose = FALSE
    /\ timedOut = FALSE
    /\ errors = {}
    /\ nPings = 0
    /\ InitApp /\ InitCoord /\ InitNoHook /\ InitNoCall

SpecPlainIterator == InitPlainIterator /\ [][Next]_vars

\* the coordinator with the connection's driver left at its initial state
InitCoordOnly == Init /\ ~send_timeout

SpecCoord == InitCoordOnly /\ [][NextCoord]_vars

\* a connection that is never disconnected, with or without a shutdown hook
InitGrace ==
    /\ InitDriver /\ ~send_timeout
    /\ InitApp /\ InitCoord /\ InitNoCall
    /\ hook \in {"none", "clear"}
    /\ grace_period \in 0..1
    /\ coop \in BOOLEAN
    /\ hook = "none" => (grace_period = 0 /\ ~coop)
    /\ gpc = "listen"

NextGrace ==
    \/ stream_Begin \/ stream_StartSent
    \/ (ProducerTicks /\ stream_PullItem)
    \/ (ProducerSaysFarewell /\ stream_PullFarewell)
    \/ (ProducerReturns /\ stream_PullExhausted)
    \/ stream_DataSent \/ stream_AcquireTerm \/ stream_TermSent
    \/ stream_Cancelled
    \/ ping_Begin \/ ping_Wake \/ ping_Acquire \/ ping_Sent \/ ping_Cancelled
    \/ exit_CheckFirst \/ exit_SetupEvent \/ exit_Recheck \/ exit_Wake
    \/ disc_Cancelled
    \/ handle_exit_SetFlag \/ handle_exit_Notify
    \/ grace_SetHook \/ grace_Immediate \/ grace_LoopFinished \/ grace_Expire
    \/ DriverExit

SpecGrace == InitGrace /\ [][NextGrace]_vars

\* the grace wrapper runs when it is ready, the grace timer fires, a
\* requested cancellation is delivered, and the write loop is scheduled
grace_Step ==
    grace_SetHook \/ grace_Immediate \/ grace_LoopFinished \/ grace_Expire

cancel_Step == stream_Cancelled \/ ping_Cancelled \/ disc_Cancelled

FairGrace ==
    /\ SpecGrace
    /\ WF_vars(grace_Step)
    /\ WF_vars(cancel_Step)
    /\ WF_vars(DriverExit)

\* one call of the constructor, over the argument combinations
InitCtor ==
    /\ InitDriver /\ ~send_timeout
    /\ InitApp /\ InitCoord /\ InitNoHook
    /\ call \in CtorArgs
    /\ ret = <<>>

SpecCtor == InitCtor /\ [][init_Construct]_vars

\* one call of encode(), over the events whose text fields hold at most
\* MaxLen characters in total
InitEncode ==
    /\ InitDriver /\ ~send_timeout
    /\ InitApp /\ InitCoord /\ InitNoHook
    /\ \E c \in OptStr(MaxLen) :
       \E i \in OptStr(MaxLen - Len(c.s)) :
       \E ev \in OptStr(MaxLen - Len(c.s) - Len(i.s)) :
       \E d \in OptStr(MaxLen - Len(c.s) - Len(i.s) - Len(ev.s)) :
       \E r \in RetryArgs, sp \in SepOpts :
          call = [fn |-> "encode", comment |-> c, id |-> i, event |-> ev,
                  data |-> d, retry |-> r, sep |-> sp]
    /\ ret = <<>>

SpecEncode == InitEncode /\ [][encode_Call]_vars

\* one value yielded by the producer or returned by the ping factory, under
\* each separator of the response
InitEnsure ==
    /\ InitDriver /\ ~send_timeout
    /\ InitApp /\ InitCoord /\ InitNoHook
    /\ ret = <<>>
    /\ \E fn \in {"ensure_bytes", "_ping"}, sep \in ResponseSeps :
          \/ \E c \in OptStr(MaxText) :
             \E i \in OptStr(MaxText - Len(c.s)) :
             \E ev \in OptStr(MaxText - Len(c.s) - Len(i.s)) :
             \E d \in OptStr(MaxText - Len(c.s) - Len(i.s) - Len(ev.s)) :
             \E r \in RetryArgs, sp \in SepOpts :
             \E k \in {"event", "dict"}, x \in BOOLEAN :
                /\ x => k = "dict"
                /\ call = [fn |-> fn, sep |-> sep, kind |-> k, extra |-> x,
                           ev |-> [comment |-> c, id |-> i, event |-> ev,
                                   data |-> d, retry |-> r, sep |-> sp],
                           scalar |-> [kind |-> "str", s |-> <<>>, v |-> 0]]
          \/ \E k \in {"scalar", "bytes"}, v \in ScalarArgs :
                /\ k = "bytes" => v.kind = "str"
                /\ call = [fn |-> fn, sep |-> sep, kind |-> k, extra |-> FALSE,
                           ev |-> NoEvent, scalar |-> v]
          \/ /\ fn = "_ping"
             /\ call = [fn |-> fn, sep |-> sep, kind |-> "nofactory",
                        extra |-> FALSE, ev |-> NoEvent,
                        scalar |-> [kind |-> "str", s |-> <<>>, v |-> 0]]

SpecEnsure == InitEnsure /\ [][NextEnsure]_vars

\* the event loop runs a ready listener, and a handle_exit that has set the
\* flag goes on to its next statement
exit_Step ==
    exit_CheckFirst \/ exit_SetupEvent \/ exit_Recheck \/ exit_Wake
    \/ exit_Cancelled

FairSpec == Spec /\ WF_vars(exit_Step) /\ WF_vars(handle_exit_Notify)

\* a transport whose writes may never complete: only the timer of
\* asyncio.timeout, the delivery of requested cancellations and the end of
\* the task group are sure to happen
FairTimers ==
    /\ Spec
    /\ WF_vars(stream_Timeout)
    /\ WF_vars(cancel_Step)
    /\ WF_vars(DriverExit)

\* one shutdown round of the coordinator with the fallback toggle either
\* way; a process without a discoverable host server is one whose host flag
\* never becomes true
InitFallback ==
    /\ InitDriver /\ ~send_timeout
    /\ InitApp /\ InitNoHook /\ InitNoCall
    /\ registry = [d \in Domains |-> {}]
    /\ watcher_started = [d \in Domains |-> FALSE]
    /\ watchers = [d \in Domains |-> 0]
    /\ signalled = [l \in Listeners |-> FALSE]
    /\ lpc = [l \in Listeners |-> "idle"]
    /\ phase = [d \in Domains |-> "fresh"]
    /\ host_exit = FALSE
    /\ fallback_enabled \in BOOLEAN

NextFallback ==
    \/ \E l \in Listeners, d \in Domains : Register(l, d)
    \/ \E d \in Domains : WatcherPoll(d)
    \/ \E l \in Listeners : Wake(l)
    \/ \E l \in Listeners : CancelListener(l)
    \/ handle_exit_SetFlag \/ handle_exit_Notify
    \/ HostExit

SpecFallback == InitFallback /\ [][NextFallback]_vars

FairFallback ==
    /\ SpecFallback
    /\ \A d \in Domains : WF_vars(WatcherPoll(d))
    /\ \A l \in Listeners : WF_vars(Wake(l))

\* the watcher's poll timer fires, and a signalled listener is resumed
FairCoord ==
    /\ SpecCoord
    /\ \A d \in Domains : WF_vars(WatcherPoll(d))
    /\ \A l \in Listeners : WF_vars(Wake(l))

----
\* ---- properties ----

BodyKinds == {"data", "ping", "term"}
TermCount == Cardinality({i \in DOMAIN log : log[i].kind = "term"})

\* C1: on every exit path of the driver exactly one write with
\* more_body=False has been issued when the driver call ends
C1_ExactlyOneTerminal ==
    driver # "running" => TermCount = 1

\* C2: the terminal write is the last transport call: nothing is sent after
\* it, and no other write is in flight once it has been issued
C2_TerminalIsLast ==
    /\ \A i \in DOMAIN log : log[i].kind = "term" => i = Len(log)
    /\ TermCount > 0 => inflight \subseteq {"term"}

\* a heartbeat came due, found the send lock taken by the terminal write and
\* is still waiting for it after the write loop has returned
C2_Witness ==
    /\ pc["stream"] = "done"
    /\ pc["ping"] = "lock"
    /\ TermCount = 1

C4_FirstExitCancelsRest ==
    \A t \in Tasks :
        pc[t] = "done" =>
            \A u \in Tasks \ {t} : Finished(u) \/ cancelReq[u]

\* C5: after a data write has timed out the driver call ends by raising
\* SendTimeoutError, with the event source closed
C5_TimeoutRaises ==
    (timedOut /\ driver # "running") =>
        /\ driver = "raised"
        /\ "SendTimeoutError" \in errors
        /\ src = "closed"

\* C6: when the driver call ends, an event source that was started has been
\* closed (its cleanup has run), whatever the exit path
C6_SourceFinalized ==
    (driver # "running" /\ has_aclose) => src # "suspended"

\* C9: a listener that starts with the flag set returns at once without
\* creating the event, and once shutdown has been requested the listener
\* leaves its wait, wherever it was when the request came
C9_ImmediateReturn ==
    (pc["exit"] = "start" /\ should_exit /\ pc'["exit"] \notin {"start", "cancelled"})
        => (pc'["exit"] = "done" /\ exit_event' = exit_event)

C9_NoLostWakeup ==
    /\ [][C9_ImmediateReturn]_vars
    /\ should_exit ~> (pc["exit"] \in {"done", "cancelled"})

\* the request came after the first check: the listener created the event
\* and returned at the second check, before the event was ever set
C9_Witness ==
    /\ pc["exit"] = "done"
    /\ should_exit
    /\ exit_event = "unset"

\* C7: a domain never has two watchers; a registration starts a watcher
\* exactly when the domain has none, and then exactly one
Registers(d) == \E l \in Listeners : l \in registry'[d] /\ l \notin registry[d]

C7_RegistrationStep ==
    \A d \in Domains :
        Registers(d) =>
            /\ watchers[d] >= 1 => watchers'[d] = watchers[d]
            /\ watchers[d] = 0 => watchers'[d] = 1

C7_SingleWatcher ==
    /\ [](\A d \in Domains : watchers[d] <= 1)
    /\ [][C7_RegistrationStep]_vars

\* two handles registered in one domain, one watcher
C7_Witness ==
    \E d \in Domains :
        /\ Cardinality(registry[d]) >= 2
        /\ watchers[d] = 1

\* C8: a broadcast signals every handle registered in its domain, and every
\* listener that waits while shutdown is requested stops waiting
Broadcasts(d) == watchers'[d] < watchers[d]

C8_BroadcastStep ==
    \A d \in Domains :
        Broadcasts(d) => \A l \in registry[d] : signalled'[l]

C10_Stopped ==
    \A d \in Domains :
        (phase[d] = "stopped" /\ registry[d] = {}) =>
            (watchers[d] = 0 /\ ~watcher_started[d])

C10_RestartStep ==
    \A d \in Domains :
        (phase[d] = "stopped" /\ registry[d] = {} /\ ~should_exit /\ Registers(d)) =>
            (watchers'[d] = 1 /\ watcher_started'[d])

C10_StopAndRestart ==
    /\ []C10_Stopped
    /\ [][C10_RestartStep]_vars

\* the domain's watcher has broadcast and stopped, the flag is clear again,
\* and a later registration in the domain has one watcher running
C10_Witness ==
    \E d \in Domains :
        /\ phase[d] = "restarted"
        /\ ~should_exit
        /\ registry[d] # {}
        /\ watchers[d] = 1
        /\ watcher_started[d]

\* C11: the registry of a domain holds no handle of a listener that is
\* not waiting: a listener that has woken, was cancelled or has failed has
\* removed its handle
C11_NoStaleHandle ==
    \A l \in Listeners :
        lpc[l] # "waiting" => \A d \in Domains : l \notin registry[d]

\* a listener registered (the watcher it started is still running), then
\* stopped waiting before any broadcast, and the registry is empty again
C11_Witness ==
    \E d \in Domains :
        /\ watchers[d] = 1
        /\ phase[d] = "fresh"
        /\ registry[d] = {}
        /\ \A l \in Listeners : lpc[l] = "idle"

\* C14: with no shutdown hook, once the shutdown listener has detected
\* shutdown and returned, the write loop, the heartbeat and the disconnect
\* listener are cancelled (or have already finished)
C14_ShutdownCancelsAll ==
    (hook = "none" /\ pc["exit"] = "done") =>
        \A u \in Tasks \ {"exit"} : Finished(u) \/ cancelReq[u]

\* C17: once the disconnect listener has seen the disconnect notice, active
\* is false and the write loop, the heartbeat and the shutdown listener are
\* cancelled (or have already finished)
C17_DisconnectEffects ==
    pc["disc"] = "done" =>
        /\ ~active
        /\ \A u \in Tasks \ {"disc"} : Finished(u) \/ cancelReq[u]

\* C18: an error of the event source ends the driver call with that error
\* raised to the caller, and from the moment the source has raised there is
\* no further transport call
C18_Raised ==
    (src = "raised" /\ driver # "running") =>
        (driver = "raised" /\ "ProducerError" \in errors)

C18_NoWriteAfterError == src = "raised" => log' = log

C18_ProducerErrorPropagates ==
    /\ []C18_Raised
    /\ [][C18_NoWriteAfterError]_vars

\* the source raised while a heartbeat write was in flight, and the driver
\* call has ended with the error
C18_Witness ==
    /\ src = "raised"
    /\ driver = "raised"
    /\ pc["ping"] = "cancelled"
    /\ log[Len(log)].kind = "ping"

\* a cancellation has been requested of, or delivered to, the write loop
StreamCancelSeen == cancelReq["stream"] \/ pc["stream"] = "cancelled"

\* C12: with a hook and a positive grace period, when the producer answers
\* the hook with a farewell event and returns before the grace period has
\* expired, the farewell event is in the transport log before the terminal
\* write, and the write loop is not cancelled while the producer runs
CooperativeCase == hook # "none" /\ grace_period > 0 /\ coop

C12_FarewellWritten ==
    (CooperativeCase /\ gpc = "returned") =>
        \E i, j \in DOMAIN log :
            i < j /\ log[i] = Farewell /\ log[j].kind = "term"

C12_NotForced ==
    (CooperativeCase /\ gpc' # "expired"
        /\ pc["stream"] # "cancelled" /\ pc'["stream"] = "cancelled")
    => (pc["stream"] = "sendTerm" /\ src = "closed")

C12_CooperativeExit ==
    /\ []C12_FarewellWritten
    /\ [][C12_NotForced]_vars

\* the farewell event and the terminal write are out, the write loop has
\* returned and the driver call has ended
C12_Witness ==
    /\ CooperativeCase
    /\ gpc = "returned"
    /\ pc["stream"] = "done"
    /\ FarewellYielded
    /\ driver = "returned"

\* C13: with a hook and a positive grace period and a producer that ignores
\* the hook, nothing is cancelled before the grace period has expired, and
\* once shutdown is detected every other operation ends up cancelled
IgnoringCase == hook # "none" /\ grace_period > 0 /\ ~coop

C13_NotBeforeExpiry ==
    (IgnoringCase /\ \E t \in Tasks : cancelReq[t] \/ pc[t] = "cancelled")
        => gpc = "expired"

C15_HookFirst ==
    (hook # "none" /\ StreamCancelSeen) => hook = "set"

C15_ZeroGraceStep ==
    (hook # "none" /\ grace_period = 0 /\ gpc = "listen" /\ gpc' # "listen")
        => (hook' = "set" /\ gpc' = "nograce")

C15_HookSetBeforeCancel ==
    /\ []C15_HookFirst
    /\ [][C15_ZeroGraceStep]_vars
    /\ (hook # "none" /\ pc["exit"] = "done") ~> (hook = "set")
    /\ (hook = "set" /\ grace_period = 0) ~> Finished("stream")

\* grace period zero, producer ignoring the hook: the hook is set and the
\* write loop has been cancelled
C15_Witness ==
    /\ hook = "set"
    /\ grace_period = 0
    /\ ~coop
    /\ pc["stream"] = "cancelled"
    /\ gpc = "returned"

\* C16: a constructor call with ping <= 0, a negative grace period or a
\* separator other than CRLF, CR, LF ends in an error and no transport call
InvalidConfig(a) ==
    \/ a.ping.given /\ a.ping.v <= 0
    \/ a.grace.given /\ a.grace.v < 0
    \/ a.sep # "None" /\ a.sep \notin ValidSeps

C16_InvalidConfigFails ==
    (ret # <<>> /\ InvalidConfig(call)) =>
        (ret.outcome \in {"ValueError", "TypeError"} /\ log = <<>>)

\* What a client reads: the output cut at every CRLF, CR or LF.  The last
\* element is what follows the last line end.
RECURSIVE ClientCut(_, _, _)
ClientCut(out, i, cur) ==
    IF i > Len(out) THEN <<cur>>
    ELSE IF out[i] = "\r" /\ i < Len(out) /\ out[i + 1] = "\n"
         THEN <<cur>> \o ClientCut(out, i + 2, <<>>)
    ELSE IF out[i] = "\r" \/ out[i] = "\n"
         THEN <<cur>> \o ClientCut(out, i + 1, <<>>)
    ELSE ClientCut(out, i + 1, Append(cur, out[i]))

ClientLines(out) ==
    LET c == ClientCut(out, 1, <<>>) IN SubSeq(c, 1, Len(c) - 1)

ClientRest(out) ==
    LET c == ClientCut(out, 1, <<>>) IN c[Len(c)]

Encoded == ret # <<>> /\ ret.outcome = "ok"

TagRank(line) ==
    IF line = <<>> THEN 6
    ELSE CASE line[1] = ": " -> 1
           [] line[1] = "id: " -> 2
           [] line[1] = "event: " -> 3
           [] line[1] = "data: " -> 4
           [] line[1] = "retry: " -> 5
           [] OTHER -> 0

HasLine(L, rank) == \E i \in 1..Len(L) : TagRank(L[i]) = rank

\* C19: the lines of an encoded event are tagged comment, id, event, data,
\* retry in that order, a tag appears exactly when its field is set, and
\* the only empty line is the last one; with no field set the output is
\* the separator alone
C19_FieldOrderAndEnd ==
    Encoded =>
        LET L == ClientLines(ret.bytes) IN
        /\ ClientRest(ret.bytes) = <<>>
        /\ Len(L) >= 1
        /\ \A i \in 1..Len(L) : (L[i] = <<>>) <=> (i = Len(L))
        /\ \A i \in 1..Len(L) : TagRank(L[i]) \in 1..6
        /\ \A i, j \in 1..Len(L) : i < j => TagRank(L[i]) <= TagRank(L[j])
        /\ HasLine(L, 1) <=> call.comment.set
        /\ HasLine(L, 2) <=> call.id.set
        /\ HasLine(L, 3) <=> call.event.set
        /\ HasLine(L, 4) <=> call.data.set
        /\ HasLine(L, 5) <=> call.retry.set
        /\ (~call.comment.set /\ ~call.id.set /\ ~call.event.set
              /\ ~call.data.set /\ ~call.retry.set)
               => ret.bytes = SepOf(call)

C19_Witness ==
    /\ Encoded
    /\ call.comment.set /\ call.id.set /\ call.event.set
    /\ call.data.set /\ call.retry.set
    /\ Len(ClientLines(ret.bytes)) = 6

\* the line breaks of a value: every CR or LF, a CR LF pair counting once
CountBreaks(v) ==
    Cardinality({i \in 1..Len(v) : v[i] \in {"\r", "\n"}})
      - Cardinality({i \in 1..(Len(v) - 1) : v[i] = "\r" /\ v[i + 1] = "\n"})

\* the fragments of a value, read from its positions: a fragment runs
\* between two consecutive line breaks
BreakEnds(v) ==
    {i \in 1..Len(v) :
        /\ v[i] \in {"\r", "\n"}
        /\ ~(v[i] = "\r" /\ i < Len(v) /\ v[i + 1] = "\n")}

Chars(v) == {i \in 1..Len(v) : v[i] \notin {"\r", "\n"}}

\* the fragment number (from 1) of the character at position i
FragmentOf(v, i) == 1 + Cardinality({b \in BreakEnds(v) : b < i})

LinesTagged(L, rank) ==
    SelectSeq(L, LAMBDA line : TagRank(line) = rank)

\* the k-th tagged line is the tag followed by the characters of the k-th
\* fragment in their order
LinesAreFragments(T, v) ==
    /\ Len(T) = CountBreaks(v) + 1
    /\ \A k \in 1..Len(T) :
          LET idx == {i \in Chars(v) : FragmentOf(v, i) = k} IN
          /\ Len(T[k]) = 1 + Cardinality(idx)
          /\ \A i \in idx :
                T[k][1 + Cardinality({j \in idx : j <= i})] = v[i]

\* C20: a data or comment value with k line breaks (CRLF, CR or LF) is
\* emitted as k + 1 tagged lines, one per fragment in order, the empty
\* fragments included
C20_OneLinePerFragment ==
    Encoded =>
        LET L == ClientLines(ret.bytes) IN
        /\ call.data.set => LinesAreFragments(LinesTagged(L, 4), call.data.s)
        /\ call.comment.set
              => LinesAreFragments(LinesTagged(L, 1), call.comment.s)

C20_Witness ==
    /\ Encoded
    /\ call.data.set
    /\ call.data.s = <<"x", "\r", "\n">>
    /\ LinesTagged(ClientLines(ret.bytes), 4) = << <<"data: ", "x">>, <<"data: ">> >>

\* the line is its tag followed by the characters of v that are not line
\* breaks, in their order
KeptInOrder(line, v) ==
    /\ Len(line) = 1 + Cardinality(Chars(v))
    /\ \A i \in Chars(v) :
          line[1 + Cardinality({j \in Chars(v) : j <= i})] = v[i]

\* C21: an id or event value occupies exactly one line of the output, which
\* holds the value's characters other than CR and LF in their order
C21_IdEventOneLine ==
    Encoded =>
        LET L == ClientLines(ret.bytes) IN
        /\ call.id.set =>
              /\ Len(LinesTagged(L, 2)) = 1
              /\ KeptInOrder(LinesTagged(L, 2)[1], call.id.s)
        /\ call.event.set =>
              /\ Len(LinesTagged(L, 3)) = 1
              /\ KeptInOrder(LinesTagged(L, 3)[1], call.event.s)

C21_Witness ==
    /\ Encoded
    /\ call.id.set /\ call.id.s = <<"x", "\r", "\n">>
    /\ call.event.set /\ ~call.data.set /\ ~call.comment.set /\ ~call.retry.set
    /\ ClientLines(ret.bytes) = << <<"id: ", "x">>, <<"event: ">>, <<>> >>

\* C22: a retry that is not an integer makes encode fail and return no
\* bytes; an integer retry is emitted as the line `retry: <integer>`
C22_RetryIntegerOrError ==
    (ret # <<>> /\ call.retry.set) =>
        IF call.retry.kind = "int"
        THEN /\ ret.outcome = "ok"
             /\ LinesTagged(ClientLines(ret.bytes), 5)
                   = << <<"retry: ", <<"0", "1", "2", "3">>[call.retry.v + 1]>> >>
        ELSE /\ ret.outcome = "TypeError"
             /\ ret.bytes = <<>>

\* the line terminators that occur in a byte string
Terminators(out) ==
    { IF out[i] = "\r" /\ i < Len(out) /\ out[i + 1] = "\n"
      THEN <<"\r", "\n">> ELSE <<out[i]>> :
        i \in {j \in 1..Len(out) :
                 /\ out[j] \in {"\r", "\n"}
                 /\ ~(out[j] = "\n" /\ j > 1 /\ out[j - 1] = "\r")} }

\* the chunks the separator rule covers: scalars, mappings, events built
\* without a separator of their own, and the default heartbeat
SepCovered ==
    \/ call.kind \in {"scalar", "dict", "nofactory"}
    \/ call.kind = "event" /\ ~call.ev.sep.set

\* C23: every chunk made from a scalar, a mapping, an event without an
\* explicit separator or a heartbeat ends its lines with the response's
\* separator and with no other line terminator
C23_SeparatorFixed ==
    (Encoded /\ SepCovered) => Terminators(ret.bytes) = {call.sep}

DataCount(l) == Cardinality({i \in DOMAIN l : l[i].kind = "data"})

\* C25: once a data write has timed out, no further event is pulled from
\* the source and no further data write is issued
C25_TimeoutNotRetried ==
    [][timedOut => (produced' = produced /\ DataCount(log') = DataCount(log))]_vars

\* C26: active is true at the start and never becomes true again; the step
\* that sets it to false takes the send lock for the write loop and issues
\* the terminal write as the next transport call
C26_ActiveFlipsOnce ==
    /\ active = TRUE
    /\ [][/\ ~active => ~active'
          /\ (active /\ ~active') =>
                /\ holder' = "stream"
                /\ log' = Append(log, Msg("term", 0))]_vars

C26_Witness ==
    /\ ~active
    /\ holder = "stream"
    /\ pc["stream"] = "sendTerm"
    /\ nPings > 0
    /\ log[Len(log)] = Msg("term", 0)

\* C27: with send_timeout configured the send lock is never held for ever,
\* whatever the transport does: each write under the lock ends by
\* completing, by timing out or by cancellation of the holder
C27_LockNotHeldForever ==
    (send_timeout /\ holder # "none") ~> (holder = "none")

\* C28: the data write is made without the send lock, so a ping interval
\* that elapses while a data write is in flight leads at once to the
\* heartbeat's send, with the data send still pending
C28_PingDuringDataWrite ==
    [][("data" \in inflight /\ nPings' = nPings + 1) =>
          /\ holder = "none" /\ holder' = "ping"
          /\ log' = Append(log, Msg("ping", 0))
          /\ {"data", "ping"} \subseteq inflight']_vars

C28_Witness ==
    /\ pc["stream"] = "sendData" /\ pc["ping"] = "send"
    /\ holder = "ping"
    /\ {"data", "ping"} \subseteq inflight
    /\ Len(log) >= 2
    /\ log[Len(log)] = Msg("ping", 0)
    /\ log[Len(log) - 1].kind = "data"

\* C29: with the fallback enabled, a listener that waits while only the
\* host server's exit flag is true stops waiting, the broadcast that wakes
\* it signals every handle of its domain and sets the global flag; with no
\* host flag, a listener that waits while the global flag is true stops
\* waiting
C29_BroadcastSyncsFlag ==
    \A d \in Domains :
        Broadcasts(d) =>
            (should_exit' /\ \A l \in registry[d] : signalled'[l])

C29_EitherSource ==
    /\ [][C29_BroadcastSyncsFlag]_vars
    /\ \A l \in Listeners :
          (fallback_enabled /\ host_exit /\ lpc[l] = "waiting")
              ~> (should_exit /\ lpc[l] # "waiting")
    /\ \A l \in Listeners :
          (fallback_enabled /\ ~host_exit /\ should_exit /\ lpc[l] = "waiting")
              ~> (lpc[l] # "waiting")

\* the host flag is true, the watcher of a domain has broadcast to both of
\* the handles registered in it, and the global flag is set
C29_Witness ==
    \E d \in Domains :
        /\ fallback_enabled /\ host_exit /\ should_exit
        /\ hx = "idle"
        /\ phase[d] = "stopped"
        /\ Cardinality(registry[d]) >= 2
        /\ \A l \in registry[d] : signalled[l]

\* C30: with the fallback disabled the global flag becomes true only by
\* handle_exit, and a handle is signalled only when the global flag is
\* already true, whatever the host server's flag is
C30_Step ==
    ~fallback_enabled =>
        /\ (~should_exit /\ should_exit') => (hx = "idle" /\ hx' = "notify")
        /\ \A l \in Listeners : (~signalled[l] /\ signalled'[l]) => should_exit

C30_DisabledFallback == [][C30_Step]_vars

\* the toggle is off, the host flag is true and the global flag is not: a
\* listener is registered with its watcher running and is not signalled
C30_Witness ==
    \E d \in Domains : \E l \in registry[d] :
        /\ ~fallback_enabled /\ host_exit /\ ~should_exit
        /\ watchers[d] = 1
        /\ lpc[l] = "waiting" /\ ~signalled[l]

----
\* ---- shutdown listeners on several event loops (sse.py) ----
\* listen_for_exit_signal keeps no state per event loop: whatever loop runs
\* it, a listener waits on the one event stored on the AppStatus class.
\* Loops are threads, so handle_exit and the listeners of another loop can
\* run between two statements of a listener.  Here registry[d] holds the
\* listeners of loop d that are inside listen_for_exit_signal.

\* the event object listener l waits on
HandleOf(l) == "AppStatus.should_exit_event"

\* `if AppStatus.should_exit: return`, on loop d
listen_CheckFirst(l, d) ==
    /\ lpc[l] = "idle"
    /\ IF should_exit
       THEN UNCHANGED <<lpc, registry>>
       ELSE /\ lpc' = [lpc EXCEPT ![l] = "setup"]
            /\ registry' = [registry EXCEPT ![d] = @ \cup {l}]
    /\ UNCHANGED <<watcher_started, watchers, signalled, phase,
                   host_exit, fallback_enabled>>
    /\ UNCHANGED <<drvVars, appVars>>

\* `if AppStatus.should_exit_event is None: ... = anyio.Event()`
listen_SetupEvent(l) ==
    /\ lpc[l] = "setup"
    /\ exit_event' = IF exit_event = "none" THEN "unset" ELSE exit_event
    /\ lpc' = [lpc EXCEPT ![l] = "recheck"]
    /\ UNCHANGED <<should_exit, hx, registry, watcher_started, watchers,
                   signalled, phase, host_exit, fallback_enabled>>
    /\ UNCHANGED drvVars

\* `if AppStatus.should_exit: return`, then `await ...should_exit_event.wait()`
listen_Recheck(l) ==
    /\ lpc[l] = "recheck"
    /\ IF RecheckExit
       THEN /\ lpc' = [lpc EXCEPT ![l] = "idle"]
            /\ registry' = Deregister(l)
       ELSE /\ lpc' = [lpc EXCEPT ![l] = "waiting"]
            /\ UNCHANGED registry
    /\ UNCHANGED <<watcher_started, watchers, signalled, phase,
                   host_exit, fallback_enabled>>
    /\ UNCHANGED <<drvVars, appVars>>

\* wait() returns once the event is set
listen_Wake(l) ==
    /\ lpc[l] = "waiting"
    /\ exit_event = "set"
    /\ lpc' = [lpc EXCEPT ![l] = "idle"]
    /\ registry' = Deregister(l)
    /\ UNCHANGED <<watcher_started, watchers, signalled, phase,
                   host_exit, fallback_enabled>>
    /\ UNCHANGED <<drvVars, appVars>>

\* the listener's task is cancelled inside wait()
listen_Cancelled(l) ==
    /\ lpc[l] = "waiting"
    /\ lpc' = [lpc EXCEPT ![l] = "idle"]
    /\ registry' = Deregister(l)
    /\ UNCHANGED <<watcher_started, watchers, signalled, phase,
                   host_exit, fallback_enabled>>
    /\ UNCHANGED <<drvVars, appVars>>

NextLoops ==
    \/ \E l \in Listeners, d \in Domains : listen_CheckFirst(l, d)
    \/ \E l \in Listeners : listen_SetupEvent(l)
    \/ \E l \in Listeners : listen_Recheck(l)
    \/ \E l \in Listeners : listen_Wake(l)
    \/ \E l \in Listeners : listen_Cancelled(l)
    \/ handle_exit_SetFlag \/ handle_exit_Notify

SpecLoops == InitCoordOnly /\ [][NextLoops]_vars

\* C31: shutdown state is bound to one concurrency domain: listeners that
\* wait in different domains never wait on the same handle
C31_DomainBound ==
    \A d1 \in Domains, d2 \in Domains :
        \A l1 \in registry[d1], l2 \in registry[d2] :
            (d1 # d2 /\ lpc[l1] = "waiting" /\ lpc[l2] = "waiting")
                => HandleOf(l1) # HandleOf(l2)

\* C32: the shutdown flag is monotonic: a step that takes it from true to
\* false is a step of the reset utility; notifications, registrations,
\* broadcasts, watcher exits and listener wake-ups never lower it
C32_FlagMonotonic ==
    [][(should_exit /\ ~should_exit') => reset]_vars

\* the flag is still true after a broadcast and the watcher's exit, with a
\* further notification under way
C32_Witness ==
    /\ should_exit
    /\ hx = "notify"
    /\ \E d \in Domains : phase[d] = "stopped" /\ watchers[d] = 0

----
\* ---- the broadcast, handle by handle ----
\* WatcherPoll above takes the broadcast as one step.  Here the watcher's
\* loop over its snapshot is followed one handle at a time, so that listeners
\* can remove their handles while it iterates.  call holds the broadcast in
\* progress: its domain, the snapshot and the handles not yet signalled.

\* the loop iterates over a copy of the registry, which removals do not touch
IterationDisturbed_LiveSet(c) == registry[c.d] # c.snapshot
IterationDisturbed(c) == FALSE

\* the watcher exits and resets the running flag
WatcherExit(d) ==
    /\ phase' = [phase EXCEPT ![d] = "stopped"]
    /\ watchers' = [watchers EXCEPT ![d] = @ - 1]
    /\ watcher_started' = [watcher_started EXCEPT ![d] = FlagAfterExit]
    /\ call' = <<>>

\* a poll detects shutdown: set the flag, take the snapshot
bcast_Begin(d) ==
    /\ call = <<>>
    /\ watchers[d] > 0
    /\ ShutdownDetected
    /\ should_exit' = TRUE
    /\ call' = [fn |-> "broadcast", d |-> d,
                snapshot |-> BroadcastTargets(d), left |-> BroadcastTargets(d)]
    /\ UNCHANGED <<exit_event, hx, coVars>>
    /\ UNCHANGED <<pc, cancelReq, tgVars, holder, active, src, produced, log,
                   inflight, send_timeout, has_aclose, graceVars, stVars, ret,
                   timedOut, errors, nPings>>

\* the loop signals the next handle of the snapshot (signalling is
\* idempotent and harmless for a handle that was removed meanwhile); a loop
\* whose collection changed under it dies with the rest unsignalled
bcast_Signal(l) ==
    /\ call # <<>>
    /\ l \in call.left
    /\ IF IterationDisturbed(call)
       THEN /\ WatcherExit(call.d)
            /\ UNCHANGED signalled
       ELSE /\ signalled' = [signalled EXCEPT ![l] = TRUE]
            /\ call' = [call EXCEPT !.left = @ \ {l}]
            /\ UNCHANGED <<phase, watchers, watcher_started>>
    /\ UNCHANGED <<registry, lpc, host_exit, fallback_enabled, appVars>>
    /\ UNCHANGED <<pc, cancelReq, tgVars, holder, active, src, produced, log,
                   inflight, send_timeout, has_aclose, graceVars, stVars, ret,
                   timedOut, errors, nPings>>

\* the snapshot is exhausted: the watcher exits
bcast_End ==
    /\ call # <<>>
    /\ call.left = {}
    /\ WatcherExit(call.d)
    /\ UNCHANGED <<registry, signalled, lpc, host_exit, fallback_enabled,
                   appVars>>
    /\ UNCHANGED <<pc, cancelReq, tgVars, holder, active, src, produced, log,
                   inflight, send_timeout, has_aclose, graceVars, stVars, ret,
                   timedOut, errors, nPings>>

NextBroadcast ==
    \/ \E l \in Listeners, d \in Domains : Register(l, d)
    \/ \E d \in Domains : bcast_Begin(d)
    \/ \E l \in Listeners : bcast_Signal(l)
    \/ bcast_End
    \/ \E l \in Listeners : Wake(l)
    \/ \E l \in Listeners : CancelListener(l)
    \/ \E l \in Listeners : FailListener(l)
    \/ handle_exit_SetFlag \/ handle_exit_Notify

SpecBroadcast == InitCoordOnly /\ [][NextBroadcast]_vars

bcast_Step == (\E l \in Listeners : bcast_Signal(l)) \/ bcast_End

\* the watcher's loop has no suspension point, so it runs on
FairBroadcast == SpecBroadcast /\ WF_vars(bcast_Step)

\* a broadcast starts / ends with this step
BroadcastStarts == call = <<>> /\ call' # <<>>
BroadcastEnds == call # <<>> /\ call' = <<>>

\* C33: a broadcast signals exactly the handles registered when it starts
\* (so none that was removed before); a removal while it iterates neither
\* aborts it nor makes it skip a handle: it ends, and when it ends every
\* handle still registered in its domain has been signalled
C33_Step ==
    /\ BroadcastStarts => call'.snapshot = registry[call'.d]
    /\ \A l \in Listeners :
          (~signalled[l] /\ signalled'[l]) =>
              (call # <<>> /\ l \in call.snapshot)
    /\ BroadcastEnds => \A l \in registry[call.d] : signalled[l]
C33_RegistryChangeSafe ==
    /\ [][C33_Step]_vars
    /\ (call # <<>>) ~> (call = <<>>)

\* a handle of the snapshot was removed before the loop reached it, while
\* another one is still registered and not yet signalled
C33_Witness ==
    /\ call # <<>>
    /\ \E l \in call.left : l \notin registry[call.d]
    /\ \E m \in call.left : m \in registry[call.d]

----
\* ---- AppStatus (appstatus.py): signal handlers and shutdown callbacks ----
\* The class methods run on the main thread, each as one step.  A handler is
\* "SIG_DFL", "SIG_IGN", "fn" (a callable installed by the application or the
\* interpreter) or "sse" (the signal_handler that AppStatus installs).  A
\* callback either returns ("ok") or raises an Exception ("raises").  call
\* and ret hold the last method called and what it ran.

Handlers == {"SIG_DFL", "SIG_IGN", "fn"}
CallbackKinds == {"ok", "raises"}

\* the variables of the driver and of the coordinator, which AppStatus's
\* methods leave alone
StatusFrame ==
    /\ UNCHANGED <<pc, cancelReq, tgVars, holder, active, src, produced, log,
                   inflight, send_timeout, has_aclose, graceVars,
                   timedOut, errors, nPings>>
    /\ UNCHANGED <<hx, coVars>>

\* `if cls._initialized: return`
AlreadyInitialized_Never == FALSE
AlreadyInitialized == initialized

\* AppStatus.initialize, with _register_signal_handlers: signal.signal
\* installs signal_handler and returns the handler it replaces
initialize ==
    /\ IF AlreadyInitialized
       THEN UNCHANGED <<initialized, original_handlers, os_handlers,
                        registrations>>
       ELSE /\ initialized' = TRUE
            /\ original_handlers' = [sig \in Signals |-> os_handlers[sig]]
            /\ os_handlers' = [sig \in Signals |-> "sse"]
            /\ registrations' = registrations + 1
    /\ call' = [fn |-> "initialize"]
    /\ ret' = <<>>
    /\ UNCHANGED <<should_exit, exit_event, shutdown_callbacks, nCleanups>>
    /\ StatusFrame

\* AppStatus.add_shutdown_callback
add_shutdown_callback(cb) ==
    /\ Len(shutdown_callbacks) < MaxCallbacks
    /\ shutdown_callbacks' = Append(shutdown_callbacks, cb)
    /\ call' = [fn |-> "add_shutdown_callback"]
    /\ ret' = <<>>
    /\ UNCHANGED <<should_exit, exit_event, initialized, original_handlers,
                   os_handlers, registrations, nCleanups>>
    /\ StatusFrame

\* AppStatus._listen_for_exit_signal creates the event it waits on
listen_EnsureEvent ==
    /\ ~should_exit
    /\ exit_event = "none"
    /\ exit_event' = "unset"
    /\ call' = [fn |-> "_listen_for_exit_signal"]
    /\ ret' = <<>>
    /\ UNCHANGED <<should_exit, stVars>>
    /\ StatusFrame

\* `except Exception` around each callback: the error is logged, the loop
\* goes on
CallbackErrorCaught_Propagates == FALSE
CallbackErrorCaught == TRUE

\* the callbacks (by position) that handle_exit runs
CallbacksRun(cbs) ==
    LET raising == {i \in DOMAIN cbs : cbs[i] = "raises"}
        last == IF CallbackErrorCaught \/ raising = {}
                THEN Len(cbs)
                ELSE CHOOSE i \in raising : \A j \in raising : i <= j
    IN  [i \in 1..last |-> i]

\* handle_exit returns (it does not raise)
HandleExitReturns(cbs) ==
    CallbackErrorCaught \/ \A i \in DOMAIN cbs : cbs[i] # "raises"

\* `if signum and signum in cls._original_handlers` and
\* `if original and original != SIG_DFL and original != SIG_IGN`
CallsOriginal(signum) ==
    /\ signum \in Signals
    /\ original_handlers[signum] \notin {"unsaved", "SIG_DFL", "SIG_IGN"}

\* AppStatus.handle_exit(signum, frame); signum is "None" for a direct call
AppStatus_handle_exit(signum) ==
    /\ should_exit' = TRUE
    /\ exit_event' = IF exit_event = "none" THEN "none" ELSE "set"
    /\ call' = [fn |-> "handle_exit", signum |-> signum]
    /\ ret' = [ran |-> CallbacksRun(shutdown_callbacks),
               raised |-> ~HandleExitReturns(shutdown_callbacks),
               original |-> HandleExitReturns(shutdown_callbacks)
                            /\ CallsOriginal(signum)]
    /\ UNCHANGED stVars
    /\ StatusFrame

\* the callback list after reset
ClearedCallbacks_Kept == shutdown_callbacks
ClearedCallbacks == <<>>

\* AppStatus.reset
ResetState ==
    /\ should_exit' = FALSE
    /\ exit_event' = "none"
    /\ shutdown_callbacks' = ClearedCallbacks

AppStatus_reset ==
    /\ ResetState
    /\ call' = [fn |-> "reset"]
    /\ ret' = <<>>
    /\ UNCHANGED <<initialized, original_handlers, os_handlers,
                   registrations, nCleanups>>
    /\ StatusFrame

\* AppStatus.cleanup: restore the saved handlers, forget them, reset
cleanup ==
    /\ nCleanups < MaxCleanups
    /\ nCleanups' = nCleanups + 1
    /\ os_handlers' = [sig \in Signals |->
                          IF original_handlers[sig] # "unsaved"
                          THEN original_handlers[sig] ELSE os_handlers[sig]]
    /\ original_handlers' = [sig \in Signals |-> "unsaved"]
    /\ initialized' = FALSE
    /\ registrations' = 0
    /\ ResetState
    /\ call' = [fn |-> "cleanup"]
    /\ ret' = [restored |-> {sig \in Signals :
                               original_handlers[sig] # "unsaved"}]
    /\ StatusFrame

NextStatus ==
    \/ initialize
    \/ \E cb \in CallbackKinds : add_shutdown_callback(cb)
    \/ listen_EnsureEvent
    \/ \E signum \in Signals \cup {"None"} : AppStatus_handle_exit(signum)
    \/ AppStatus_reset
    \/ cleanup

\* the process starts with any handlers for the two signals
InitStatus ==
    /\ InitDriver /\ ~send_timeout
    /\ should_exit = FALSE /\ exit_event = "none" /\ hx = "idle"
    /\ initialized = FALSE
    /\ original_handlers = [sig \in Signals |-> "unsaved"]
    /\ shutdown_callbacks = <<>>
    /\ os_handlers \in [Signals -> Handlers]
    /\ registrations = 0
    /\ nCleanups = 0
    /\ InitCoord /\ InitNoHook /\ InitNoCall

SpecStatus == InitStatus /\ [][NextStatus]_vars

\* C34: handle_exit sets should_exit, sets the exit event if there is one
\* and raises nothing (with or without one), runs every registered callback
\* in registration order whether or not some of them raise, and then calls
\* the original handler of the given signal if a callable one was saved
C34_Step ==
    (call'.fn = "handle_exit") =>
        /\ should_exit' = TRUE
        /\ exit_event' = (IF exit_event = "none" THEN "none" ELSE "set")
        /\ ~ret'.raised
        /\ ret'.ran = [i \in 1..Len(shutdown_callbacks) |-> i]
        /\ ret'.original <=>
              /\ call'.signum \in Signals
              /\ original_handlers[call'.signum] = "fn"
C34_HandleExit == [][C34_Step]_vars

\* handle_exit for SIGINT has run two callbacks, the first of which raised,
\* set the event and called the saved handler
C34_Witness ==
    /\ call # <<>> /\ call.fn = "handle_exit" /\ call.signum = "SIGINT"
    /\ Len(shutdown_callbacks) = 2 /\ shutdown_callbacks[1] = "raises"
    /\ ret.ran = <<1, 2>>
    /\ ret.original
    /\ exit_event = "set"

\* C35: initialize is idempotent: while initialized the handlers have been
\* registered exactly once since the last cleanup, a further initialize
\* changes nothing, and after cleanup (not initialized, nothing registered)
\* the next initialize registers them once again
C35_Step ==
    (call'.fn = "initialize") =>
        /\ initialized' = TRUE
        /\ initialized =>
              UNCHANGED <<original_handlers, os_handlers, registrations>>
        /\ ~initialized => registrations' = 1
C35_InitializeIdempotent ==
    /\ [](registrations = IF initialized THEN 1 ELSE 0)
    /\ [][C35_Step]_vars

\* initialize has run again after a cleanup: our handler is installed and
\* the handlers are registered once
C35_Witness ==
    /\ nCleanups = 1
    /\ call.fn = "initialize"
    /\ initialized
    /\ registrations = 1
    /\ \A sig \in Signals : os_handlers[sig] = "sse"

\* C36: reset sets should_exit to false, the exit event to none and the
\* callback list to empty, leaving the initialized flag and the saved
\* handlers as they are; cleanup restores every saved handler, empties the
\* table of saved handlers, clears the initialized flag and does the same
\* reset
C36_ResetEffect ==
    /\ should_exit' = FALSE
    /\ exit_event' = "none"
    /\ shutdown_callbacks' = <<>>
C36_Step ==
    /\ (call'.fn = "reset") =>
          /\ C36_ResetEffect
          /\ UNCHANGED <<initialized, original_handlers>>
    /\ (call'.fn = "cleanup") =>
          /\ \A sig \in Signals :
                original_handlers[sig] # "unsaved" =>
                    os_handlers'[sig] = original_handlers[sig]
          /\ \A sig \in Signals : original_handlers'[sig] = "unsaved"
          /\ initialized' = FALSE
          /\ C36_ResetEffect
C36_ResetAndCleanup == [][C36_Step]_vars

\* cleanup has restored the saved handlers of both signals, with a callback
\* and the flag to clear
C36_Witness ==
    /\ call # <<>> /\ call.fn = "cleanup"
    /\ ret.restored = Signals
    /\ os_handlers["SIGINT"] = "fn"
    /\ ~initialized /\ ~should_exit /\ shutdown_callbacks = <<>>

\* C37: the data chunks written are, in order, the encodings of a prefix of
\* the items produced: every data write is for the item just pulled, which
\* is the one after the item of the previous data write, and no data write
\* is issued after an earlier one was abandoned (its item would be skipped
\* on a connection that goes on)
C37_Step ==
    DataCount(log') > DataCount(log) =>
        /\ log' = Append(log, Msg("data", produced'))
        /\ produced' = DataCount(log) + 1
        /\ ~timedOut
C37_WrittenIsPrefix == [][C37_Step]_vars

\* the response-start message is the first transport call
StartIsFirstCall == log # <<>> => log[1].kind = "start"

\* C38: the response-start message is the first transport call, and while
\* its send is in flight no heartbeat and no data chunk is sent
C38_StartFirst ==
    /\ StartIsFirstCall
    /\ "start" \in inflight => Len(log) = 1

ping_Step == ping_Begin \/ ping_Wake \/ ping_Acquire

\* the sleep timer fires and a free lock is taken, besides the timers and
\* the cancellations of FairTimers; the transport is left free never to
\* complete a write
FairPing == FairTimers /\ WF_vars(ping_Step)

PingsIn(l) == Cardinality({i \in DOMAIN l : l[i].kind = "ping"})

\* C39: once active is false the heartbeat sends nothing, does not go back
\* to sleep after a wake-up, and ends (with send_timeout configured no write
\* can keep it waiting for the send lock for ever)
C39_Step ==
    ~active =>
        /\ PingsIn(log') = PingsIn(log)
        /\ pc["ping"] # "sleep" => pc'["ping"] # "sleep"
C39_PingEnds ==
    /\ [][C39_Step]_vars
    /\ (/\ send_timeout /\ ~active /\ ~Finished("ping")
        /\ pc["ping"] = "sleep" => nPings < MaxPings)
         ~> Finished("ping")

====
